---- MODULE Spec2Model ----
(***************************************************************************)
(* Model of Mosaicify (src/src/mosaicify.js): the photo mosaic generator.  *)
(*                                                                         *)
(* generateMosaic clears the svg cache, clips the image, averages every    *)
(* tile into a hex colour and renders the rows one after the other; each   *)
(* row requests all its svgs at once (requestSVG), and draws them when    *)
(* Promise.all of the row resolves.                                        *)
(*                                                                         *)
(* One action is one turn of the event loop that changes the state: the    *)
(* synchronous body of generateMosaic, the callback that starts a row,     *)
(* the arrival of a response body, the load or error event of an image,    *)
(* the callback that draws a row, the callback that resolves generate.     *)
(***************************************************************************)
EXTENDS Integers, Sequences, FiniteSets, Bags, TLC

\* ---------------------------------------------------------------- bounds
\* Number of run records; a caller that has one call of generate in flight
\* at a time uses the first.
MaxInFlight == 2
\* Number of lookups of settled runs still in flight when a file is selected.
MaxOrphans == 1
\* Largest image width and height, in pixels.
MaxImg == 2
\* Largest tile width and height (the globals TILE_WIDTH, TILE_HEIGHT).
MaxTile == 2
\* Largest image side given to clipImage alone (specification SpecClip).
MaxClipDim == 7
\* Largest tile side given to clipImage alone (specification SpecClip).
MaxClipTile == 3
\* Largest number of rows of the images of interleaved calls (SpecPair).
MaxPairRows == 2

VARIABLES
    TILE_WIDTH,     \* global tile width, set before the module is loaded
    TILE_HEIGHT,    \* global tile height
    localStorage,   \* the browser's key-value store: key -> string
    orphans,        \* bag of colours: lookups in flight whose run has settled
    discarded,      \* history: the keys generate's clear removed, until the first callback
    pc,             \* per run: where the promise chain of generate stands
    image,          \* per run: the img argument
    canvas,         \* per run: the canvas, [width, height, pixels]
    mosaic,         \* per run: mosaicArray, rows of hex colours
    rowNum,         \* per run: the row renderMosaic's chain has reached
    tasks,          \* per run: the requestSVG promises of the row in flight
    log,            \* history, per run: cache reads, lookups, canvas calls
    result,         \* per run: what generate resolved with
    arg,            \* argument of a function applied on its own
    ret             \* value that function returned

vars == <<TILE_WIDTH, TILE_HEIGHT, localStorage, orphans, discarded, pc, image,
          canvas, mosaic, rowNum, tasks, log, result, arg, ret>>

\* A run is a call of generate with its canvas; the record of a settled run
\* is reused by a later call.
Runs == 1..MaxInFlight

\* ------------------------------------------------------------ the images
\* An image is [width, height, pat]; pat decides its pixels.
\*   "halves": left columns ColourA, the others ColourB;
\*   "stripes": even lines ColourA, odd lines ColourB.
ColourA == <<12, 34, 56, 255>>
ColourB == <<255, 0, 16, 255>>
Transparent == <<0, 0, 0, 0>>
Patterns == {"halves", "stripes"}

NoImage == [width |-> 0, height |-> 0, pat |-> "none"]

Images == [width : 1..MaxImg, height : 1..MaxImg, pat : Patterns]

\* RGBA of the pixel (x, y) of an image; transparent black outside it.
ImagePixel(img, x, y) ==
    IF x < 0 \/ y < 0 \/ x >= img.width \/ y >= img.height THEN Transparent
    ELSE IF img.pat = "halves" THEN (IF 2 * x < img.width THEN ColourA ELSE ColourB)
    ELSE (IF y % 2 = 0 THEN ColourA ELSE ColourB)

\* ------------------------------------------------------------- clipImage
\* Math.floor of a quotient of non-negative integers.
Floor(n, d) == n \div d

\* The value of ret before a function is applied.
NoClip == [width |-> -1, height |-> -1, offsetX |-> -1, offsetY |-> -1]

\* clipImage with the whole remainder as offset, not its half.
clipImageUncentred(img) ==
    [ width   |-> img.width - (img.width % TILE_WIDTH),
      height  |-> img.height - (img.height % TILE_HEIGHT),
      offsetX |-> img.width % TILE_WIDTH,
      offsetY |-> img.height % TILE_HEIGHT ]

\* clipImage(img): the image cut to whole tiles, and the offsets of the cut.
clipImage(img) ==
    [ width   |-> img.width - (img.width % TILE_WIDTH),
      height  |-> img.height - (img.height % TILE_HEIGHT),
      offsetX |-> Floor(img.width % TILE_WIDTH, 2),
      offsetY |-> Floor(img.height % TILE_HEIGHT, 2) ]

\* ------------------------------------------------------- tile averaging
\* A pixel count that grows with the svgs the cache holds.
pixelsPerTileCached ==
    TILE_WIDTH * TILE_HEIGHT
    + Cardinality({ k \in DOMAIN localStorage : Len(k) >= 7 /\ SubSeq(k, 1, 7) = "mosaic-" })

\* const pixelsPerTile = TILE_WIDTH*TILE_HEIGHT
pixelsPerTile == TILE_WIDTH * TILE_HEIGHT

\* The canvas after ctx.drawImage(img,offsetX,offsetY,width,height,0,0,width,height):
\* pixel (x, y) of the canvas is pixel (offsetX + x, offsetY + y) of the image.
BasePixel(img, clip, x, y) ==
    IF x < 0 \/ y < 0 \/ x >= clip.width \/ y >= clip.height THEN Transparent
    ELSE ImagePixel(img, clip.offsetX + x, clip.offsetY + y)

\* ctx.getImageData(sx, sy, sw, sh).data: the RGBA bytes, line after line.
getImageData(img, clip, sx, sy, sw, sh) ==
    [ i \in 1..(4 * sw * sh) |->
        LET p == (i - 1) \div 4
        IN  BasePixel(img, clip, sx + (p % sw), sy + (p \div sw))[((i - 1) % 4) + 1] ]

\* totalColor that takes the data for RGB triples: no byte is skipped.
totalColorRGB(color, colorValue, index) ==
    [color EXCEPT ![(index % 3) + 1] = @ + colorValue]

\* totalColor([r,g,b], colorValue, index): the alpha byte is skipped.
totalColor(color, colorValue, index) ==
    IF index % 4 = 3 THEN color
    ELSE [color EXCEPT ![(index % 4) + 1] = @ + colorValue]

\* tileData.reduce(totalColor, [0,0,0]) from index i on.
RECURSIVE ReduceTotal(_, _, _)
ReduceTotal(data, i, acc) ==
    IF i >= Len(data) THEN acc
    ELSE ReduceTotal(data, i + 1, totalColor(acc, data[i + 1], i))

\* average that divides by the square of the tile width.
averageOfSquare(total) == Floor(total, TILE_WIDTH * TILE_WIDTH)

\* average(total): Math.floor(total/pixelsPerTile).
average(total) == Floor(total, pixelsPerTile)

HexDigits == "0123456789abcdef"

\* Number.prototype.toString(16) of a non-negative integer.
RECURSIVE ToString16(_)
ToString16(n) ==
    IF n < 16 THEN SubSeq(HexDigits, n + 1, n + 1)
    ELSE ToString16(n \div 16) \o SubSeq(HexDigits, (n % 16) + 1, (n % 16) + 1)

\* toHex without the leading zero.
toHexUnpadded(dec) == ToString16(dec)

\* toHex(dec): two hex digits for a byte.
toHex(dec) ==
    LET hex == ToString16(dec)
    IN  IF Len(hex) = 1 THEN "0" \o hex ELSE hex

\* tileData.reduce(totalColor,[0,0,0]).map(average)
TileAverage(tileData) ==
    LET sums == ReduceTotal(tileData, 0, <<0, 0, 0>>)
    IN  [ c \in 1..3 |-> average(sums[c]) ]

\* .map(toHex).join('')
JoinHex(rgb) == toHex(rgb[1]) \o toHex(rgb[2]) \o toHex(rgb[3])

\* The colour of the tile (x, y): reduce, average, toHex, join.
TileColor(img, clip, x, y) ==
    LET tileData == getImageData(img, clip, TILE_WIDTH * x, TILE_HEIGHT * y,
                                 TILE_WIDTH, TILE_HEIGHT)
    IN  JoinHex(TileAverage(tileData))

\* mosaicArray for xTotal columns and yTotal rows.
MosaicArray(img, clip, xTotal, yTotal) ==
    [ y \in 1..yTotal |-> [ x \in 1..xTotal |-> TileColor(img, clip, x - 1, y - 1) ] ]

\* --------------------------------------------------------- the svg cache
\* A key without the colour.
storageKeyOfSize(color) ==
    "mosaic-" \o ToString(TILE_WIDTH) \o "-" \o ToString(TILE_HEIGHT)

\* `mosaic-${color}-${TILE_WIDTH}-${TILE_HEIGHT}`
storageKey(color) ==
    "mosaic-" \o color \o "-" \o ToString(TILE_WIDTH) \o "-" \o ToString(TILE_HEIGHT)

\* localStorage.getItem: <<value>>, or <<>> for null.
getItem(store, key) == IF key \in DOMAIN store THEN <<store[key]>> ELSE <<>>

\* if(storedColorSvg): null and the empty string are falsy.
Truthy(stored) == stored # <<>> /\ stored[1] # ""

\* localStorage.setItem when it does not raise.
setItem(store, key, value) ==
    [ k \in DOMAIN store \cup {key} |-> IF k = key THEN value ELSE store[k] ]

\* key.indexOf('mosaic-') === 0
IsMosaicKey(key) == Len(key) >= 7 /\ SubSeq(key, 1, 7) = "mosaic-"

\* A clear that removes nothing.
clearNothing(store) == store

\* The store after clearCachedSvgs().
clearCachedSvgs(store) ==
    [ k \in { key \in DOMAIN store : ~IsMosaicKey(key) } |-> store[k] ]

\* ------------------------------------------------- the lookup service
\* The url requestSVG fetches for a colour.
LookupUrl(color) == "http://localhost:8765/color/" \o color

\* The body the service renders for a colour.
SvgFor(color) == "<svg fill=#" \o color \o "/>"

\* Bodies no image can be decoded from.
Garbage == {"garbage"}

\* The bodies a lookup of a colour can come back with.
Bodies(color) == {SvgFor(color)} \cup Garbage

\* img.onload fires for an svg that decodes; otherwise the error event does.
Decodable(svg) == svg \notin Garbage

\* A task's svg while the lookup is in flight.
NoBody == "(none)"

\* ------------------------------------------------------------ the canvas
\* A pixel of the canvas is a string: "#rrggbbaa" for a raster pixel, or
\* the glyph (its svg) painted over it.
PixelString(rgba) ==
    "#" \o toHex(rgba[1]) \o toHex(rgba[2]) \o toHex(rgba[3]) \o toHex(rgba[4])

CanvasCoords(width, height) == (0..(width - 1)) \X (0..(height - 1))

NoCanvas == [width |-> 0, height |-> 0, pixels |-> <<>>]

\* canvas.width = width; canvas.height = height; ctx.drawImage(img, ...).
BaseCanvas(img, clip) ==
    [ width  |-> clip.width,
      height |-> clip.height,
      pixels |-> [ p \in CanvasCoords(clip.width, clip.height) |->
                     PixelString(BasePixel(img, clip, p[1], p[2])) ] ]

InRect(p, x, y, w, h) == p[1] >= x /\ p[1] < x + w /\ p[2] >= y /\ p[2] < y + h

\* ctx.clearRect(x, y, w, h): the pixels of the rectangle become transparent.
clearRect(cv, x, y, w, h) ==
    [ cv EXCEPT !.pixels = [ p \in DOMAIN cv.pixels |->
        IF InRect(p, x, y, w, h) THEN PixelString(Transparent) ELSE cv.pixels[p] ] ]

\* The glyph painted with its coordinates swapped.
drawImageSwapped(cv, svg, x, y) ==
    [ cv EXCEPT !.pixels = [ p \in DOMAIN cv.pixels |->
        IF InRect(p, y, x, TILE_WIDTH, TILE_HEIGHT) THEN svg ELSE cv.pixels[p] ] ]

\* ctx.drawImage(svg, x, y): the glyph, one tile large, is painted at (x, y).
drawImage(cv, svg, x, y) ==
    [ cv EXCEPT !.pixels = [ p \in DOMAIN cv.pixels |->
        IF InRect(p, x, y, TILE_WIDTH, TILE_HEIGHT) THEN svg ELSE cv.pixels[p] ] ]

\* canvas.toDataURL(): "data:," for a canvas without pixels, else the raster.
toDataURL(cv) ==
    IF cv.width = 0 \/ cv.height = 0
    THEN [head |-> "data:,", width |-> 0, height |-> 0, pixels |-> <<>>]
    ELSE [head |-> "data:image/png;base64,", width |-> cv.width,
          height |-> cv.height, pixels |-> cv.pixels]

NoResult == [mosaicURL |-> [head |-> "", width |-> 0, height |-> 0, pixels |-> <<>>]]

\* ------------------------------------------------------------- the tasks
\* A task is one requestSVG promise: [color, state, svg, via], with state
\*   "fetching"  the lookup is in flight
\*   "decoding"  loadSVGtoIMG waits for the image's load event
\*   "resolved"  the promise is resolved with the image of svg
\*   "rejected"  the lookup failed, the promise is rejected
\*   "stuck"     the image raised its error event: the promise stays pending
\*   "dropped"   the row was rejected: nothing observes the promise any more
\* and via, the history of its svg: "lookup" while the lookup is in flight,
\* "cache" when read from the store, "fetched" when the lookup returned it.
Task(color, state, svg, via) ==
    [color |-> color, state |-> state, svg |-> svg, via |-> via]

DroppedTask == Task("", "dropped", NoBody, "")

\* An entry of the history of a run.
Event(ev, row, col, x, y, what) ==
    [ev |-> ev, row |-> row, col |-> col, x |-> x, y |-> y, what |-> what]

\* requestSVG without the read of the cache: every colour is looked up.
requestSVGUncached(store, color) == Task(color, "fetching", NoBody, "lookup")

\* requestSVG(color) up to its return: the promise it returns.
requestSVG(store, color) ==
    LET storedColorSvg == getItem(store, storageKey(color))
    IN  IF Truthy(storedColorSvg)
        THEN Task(color, "decoding", storedColorSvg[1], "cache")
        ELSE Task(color, "fetching", NoBody, "lookup")

\* What requestSVG(color) does for the tile (rowN, colN): a read of the
\* cache, and a lookup request when it returns a promise that fetches.
RequestEvents(store, color, rowN, colN) ==
    IF requestSVG(store, color).state = "fetching"
    THEN << Event("read", rowN, colN, 0, 0, storageKey(color)),
            Event("fetch", rowN, colN, 0, 0, LookupUrl(color)) >>
    ELSE << Event("read", rowN, colN, 0, 0, storageKey(color)) >>

\* The lookups of a row shared by colour: a colour that an earlier tile of
\* the row has is read from the cache only.
RECURSIVE RowRequestEventsOnce(_, _, _, _)
RowRequestEventsOnce(store, tileRow, rowN, colN) ==
    IF colN >= Len(tileRow) THEN << >>
    ELSE (IF \E k \in 1..colN : tileRow[k] = tileRow[colN + 1]
          THEN << Event("read", rowN, colN, 0, 0, storageKey(tileRow[colN + 1])) >>
          ELSE RequestEvents(store, tileRow[colN + 1], rowN, colN))
         \o RowRequestEventsOnce(store, tileRow, rowN, colN + 1)

\* tileRow.map(color => requestSVG(color)), columns from colN on.
RECURSIVE RowRequestEvents(_, _, _, _)
RowRequestEvents(store, tileRow, rowN, colN) ==
    IF colN >= Len(tileRow) THEN << >>
    ELSE RequestEvents(store, tileRow[colN + 1], rowN, colN)
         \o RowRequestEvents(store, tileRow, rowN, colN + 1)

\* The store with an empty catch block: nothing is cleared when it raises.
StoreSvgKeeping(store, color, svg, raises) ==
    IF raises THEN store
    ELSE setItem(store, storageKey(color), svg)

\* The callback of requestSVG that receives the body, up to loadSVGtoIMG:
\* the store after try { setItem } catch { clearCachedSvgs() }.
StoreSvg(store, color, svg, raises) ==
    IF raises THEN clearCachedSvgs(store)
    ELSE setItem(store, storageKey(color), svg)

\* The canvas calls of svgs.reduce(...) in renderRow, columns from colN on,
\* in the order it makes them.
RECURSIVE RowCalls(_, _, _)
RowCalls(svgs, rowN, colN) ==
    IF colN >= Len(svgs) THEN << >>
    ELSE << Event("clear", rowN, colN, colN * TILE_WIDTH, rowN * TILE_HEIGHT, ""),
            Event("draw", rowN, colN, colN * TILE_WIDTH, rowN * TILE_HEIGHT,
                  svgs[colN + 1]) >>
         \o RowCalls(svgs, rowN, colN + 1)

\* The canvas after the calls, from the i-th on.
RECURSIVE Paint(_, _, _)
Paint(cv, calls, i) ==
    IF i > Len(calls) THEN cv
    ELSE Paint(IF calls[i].ev = "clear"
               THEN clearRect(cv, calls[i].x, calls[i].y, TILE_WIDTH, TILE_HEIGHT)
               ELSE drawImage(cv, calls[i].what, calls[i].x, calls[i].y),
               calls, i + 1)

\* ------------------------------------------------------------------ Init
\* What the store holds when the page is loaded: another application's
\* key, with or without svgs of an earlier visit.
InitStores ==
    { [ k \in {"theme"} |-> "dark" ],
      [ k \in {"theme", storageKey("0c2238"), "mosaic-0c2238-9-9"} |->
          IF k = "theme" THEN "dark" ELSE "<svg old/>" ] }

InitRuns ==
    /\ orphans = EmptyBag
    /\ discarded = {}
    /\ pc = [r \in Runs |-> "idle"]
    /\ image = [r \in Runs |-> NoImage]
    /\ canvas = [r \in Runs |-> NoCanvas]
    /\ mosaic = [r \in Runs |-> << >>]
    /\ rowNum = [r \in Runs |-> 0]
    /\ tasks = [r \in Runs |-> << >>]
    /\ log = [r \in Runs |-> << >>]
    /\ result = [r \in Runs |-> NoResult]

Init ==
    /\ TILE_WIDTH \in 1..MaxTile
    /\ TILE_HEIGHT \in 1..MaxTile
    /\ localStorage \in InitStores
    /\ InitRuns
    /\ arg = NoImage
    /\ ret = NoClip

\* --------------------------------------------------------------- actions
\* The run is in flight: generate has returned a promise not yet settled.
InFlight(r) == pc[r] \in {"chain", "row"}

\* Promise.race in place of Promise.all: one resolved promise is enough.
AnyResolved(r) == \E c \in DOMAIN tasks[r] : tasks[r][c].state = "resolved"

\* Promise.all of the row is resolved once every promise of the row is.
AllResolved(r) == \A c \in DOMAIN tasks[r] : tasks[r][c].state = "resolved"

\* A promise callback of the run is queued: the next callback of
\* renderMosaic's chain, or the then-callback of the row's Promise.all.
JobQueued(r) ==
    \/ pc[r] = "chain"
    \/ pc[r] = "row" /\ AllResolved(r)

\* The event loop runs every queued promise callback before it takes the
\* next task (an event handler, a response, a call of generate).
JobQueueEmpty == \A r \in Runs : ~JobQueued(r)

\* fileSelectHandler up to img.onload: the user selects a file, by a caller
\* that has no other call of generate in flight; the image is read and
\* decoded. The record of the run before is dropped.
SelectFile(r, img) ==
    /\ JobQueueEmpty
    /\ \A q \in Runs : ~InFlight(q) /\ pc[q] # "selected"
    /\ r = 1
    /\ BagCardinality(orphans) <= MaxOrphans
    /\ pc' = [pc EXCEPT ![r] = "selected"]
    /\ image' = [image EXCEPT ![r] = img]
    /\ canvas' = [canvas EXCEPT ![r] = NoCanvas]
    /\ mosaic' = [mosaic EXCEPT ![r] = << >>]
    /\ rowNum' = [rowNum EXCEPT ![r] = 0]
    /\ tasks' = [tasks EXCEPT ![r] = << >>]
    /\ log' = [log EXCEPT ![r] = << >>]
    /\ result' = [result EXCEPT ![r] = NoResult]
    /\ discarded' = {}
    /\ UNCHANGED <<TILE_WIDTH, TILE_HEIGHT, localStorage, orphans, arg, ret>>

\* Array(num) raises a RangeError unless num is a whole number.
RangeThrows(clip, tileWidth, tileHeight) ==
    \/ clip.height % tileHeight # 0
    \/ clip.height >= tileHeight /\ clip.width % tileWidth # 0

\* ctx.drawImage with an empty source rectangle: canvas implementations of
\* today return and paint nothing, older ones raise an IndexSizeError.
DrawImageThrows(clip, legacy) == legacy /\ (clip.width = 0 \/ clip.height = 0)

\* generateMosaic(img, canvas, tileWidth, tileHeight) up to its return.
generateMosaic(r, img, tileWidth, tileHeight, legacy) ==
    LET clip == clipImage(img)
        threw == DrawImageThrows(clip, legacy) \/ RangeThrows(clip, tileWidth, tileHeight)
    IN  /\ localStorage' = clearCachedSvgs(localStorage)
        /\ discarded' = DOMAIN localStorage \ DOMAIN localStorage'
        /\ canvas' = [canvas EXCEPT ![r] = BaseCanvas(img, clip)]
        /\ mosaic' = [mosaic EXCEPT ![r] =
                        IF threw THEN << >>
                        ELSE MosaicArray(img, clip, clip.width \div tileWidth,
                                         clip.height \div tileHeight)]
        /\ pc' = [pc EXCEPT ![r] = IF threw THEN "threw" ELSE "chain"]
        /\ UNCHANGED <<TILE_WIDTH, TILE_HEIGHT, orphans, image, rowNum, tasks,
                       log, result, arg, ret>>

\* img.onload of fileSelectHandler: Mosaicify.generate(img).
Generate(r) ==
    /\ JobQueueEmpty
    /\ pc[r] = "selected"
    /\ \E legacy \in BOOLEAN :
          generateMosaic(r, image[r], TILE_WIDTH, TILE_HEIGHT, legacy)

\* renderRow called for every row without waiting for the row before:
\* a row is started while the row before is still pending.
StartRowEarly(r) ==
    /\ pc[r] \in {"chain", "row"}
    /\ LET n == IF pc[r] = "row" THEN rowNum[r] + 1 ELSE rowNum[r]
       IN  /\ n < Len(mosaic[r])
           /\ tasks' = [tasks EXCEPT ![r] =
                          [c \in 1..Len(mosaic[r][n + 1]) |->
                              requestSVG(localStorage, mosaic[r][n + 1][c])]]
           /\ log' = [log EXCEPT ![r] =
                          @ \o RowRequestEvents(localStorage, mosaic[r][n + 1], n, 0)]
           /\ rowNum' = [rowNum EXCEPT ![r] = n]
    /\ pc' = [pc EXCEPT ![r] = "row"]
    /\ discarded' = {}
    /\ UNCHANGED <<TILE_WIDTH, TILE_HEIGHT, localStorage, orphans, image,
                   canvas, mosaic, result, arg, ret>>

\* renderMosaic's callback for the row rowNum: renderRow up to its return.
StartRow(r) ==
    /\ pc[r] = "chain"
    /\ rowNum[r] < Len(mosaic[r])
    /\ LET tileRow == mosaic[r][rowNum[r] + 1]
       IN  /\ tasks' = [tasks EXCEPT ![r] =
                          [c \in 1..Len(tileRow) |-> requestSVG(localStorage, tileRow[c])]]
           /\ log' = [log EXCEPT ![r] =
                          @ \o RowRequestEvents(localStorage, tileRow, rowNum[r], 0)]
    /\ pc' = [pc EXCEPT ![r] = "row"]
    /\ discarded' = {}
    /\ UNCHANGED <<TILE_WIDTH, TILE_HEIGHT, localStorage, orphans, image,
                   canvas, mosaic, rowNum, result, arg, ret>>

\* The callback of requestSVG that receives the body: store it, or clear the
\* cache when the store raises, then loadSVGtoIMG.
ReceiveBody(r, c, svg, raises) ==
    /\ tasks[r][c].state = "fetching"
    /\ localStorage' = StoreSvg(localStorage, tasks[r][c].color, svg, raises)
    /\ tasks' = [tasks EXCEPT ![r][c] = Task(@.color, "decoding", svg, "fetched")]
    /\ UNCHANGED <<TILE_WIDTH, TILE_HEIGHT, orphans, discarded, pc, image, canvas,
                   mosaic, rowNum, log, result, arg, ret>>

\* A lookup comes back: with the svg of the colour or with something else,
\* and the store takes it or raises.
Receive(r, c) ==
    /\ JobQueueEmpty
    /\ c \in DOMAIN tasks[r]
    /\ \E svg \in Bodies(tasks[r][c].color), raises \in BOOLEAN :
          ReceiveBody(r, c, svg, raises)

\* img.onload that revokes the url and does not call resolve.
ImgLoadSilent(r, c) ==
    /\ JobQueueEmpty
    /\ c \in DOMAIN tasks[r]
    /\ tasks[r][c].state = "decoding"
    /\ Decodable(tasks[r][c].svg)
    /\ tasks' = [tasks EXCEPT ![r][c].state = "stuck"]
    /\ UNCHANGED <<TILE_WIDTH, TILE_HEIGHT, localStorage, orphans, discarded, pc,
                   image, canvas, mosaic, rowNum, log, result, arg, ret>>

\* img.onload of loadSVGtoIMG: resolve(img).
ImgLoad(r, c) ==
    /\ JobQueueEmpty
    /\ c \in DOMAIN tasks[r]
    /\ tasks[r][c].state = "decoding"
    /\ Decodable(tasks[r][c].svg)
    /\ tasks' = [tasks EXCEPT ![r][c].state = "resolved"]
    /\ UNCHANGED <<TILE_WIDTH, TILE_HEIGHT, localStorage, orphans, discarded, pc,
                   image, canvas, mosaic, rowNum, log, result, arg, ret>>

\* The image's error event: loadSVGtoIMG sets no onerror, nothing is called.
ImgError(r, c) ==
    /\ JobQueueEmpty
    /\ c \in DOMAIN tasks[r]
    /\ tasks[r][c].state = "decoding"
    /\ ~Decodable(tasks[r][c].svg)
    /\ tasks' = [tasks EXCEPT ![r][c].state = "stuck"]
    /\ UNCHANGED <<TILE_WIDTH, TILE_HEIGHT, localStorage, orphans, discarded, pc,
                   image, canvas, mosaic, rowNum, log, result, arg, ret>>

\* The then-callback of renderRow: clear and draw every tile of the row.
DrawRow(r) ==
    /\ pc[r] = "row"
    /\ AllResolved(r)
    /\ LET svgs == [c \in DOMAIN tasks[r] |-> tasks[r][c].svg]
           calls == RowCalls(svgs, rowNum[r], 0)
       IN  /\ canvas' = [canvas EXCEPT ![r] = Paint(@, calls, 1)]
           /\ log' = [log EXCEPT ![r] = @ \o calls]
    /\ rowNum' = [rowNum EXCEPT ![r] = @ + 1]
    /\ pc' = [pc EXCEPT ![r] = "chain"]
    /\ UNCHANGED <<TILE_WIDTH, TILE_HEIGHT, localStorage, orphans, discarded, image,
                   mosaic, tasks, result, arg, ret>>

\* The colours of the lookups of a row that are in flight, but for column c.
RECURSIVE OtherLookups(_, _, _)
OtherLookups(row, c, k) ==
    IF k > Len(row) THEN EmptyBag
    ELSE (IF k # c /\ row[k].state = "fetching"
          THEN SetToBag({row[k].color}) ELSE EmptyBag)
         (+) OtherLookups(row, c, k + 1)

\* The rejection caught in renderRow: the row is skipped, the chain goes on.
LookupFailsCaught(r, c) ==
    /\ JobQueueEmpty
    /\ pc[r] = "row"
    /\ c \in DOMAIN tasks[r]
    /\ tasks[r][c].state = "fetching"
    /\ pc' = [pc EXCEPT ![r] = "chain"]
    /\ rowNum' = [rowNum EXCEPT ![r] = @ + 1]
    /\ orphans' = orphans (+) OtherLookups(tasks[r], c, 1)
    /\ tasks' = [tasks EXCEPT ![r] =
                    [k \in DOMAIN @ |->
                        IF k = c THEN Task(@[k].color, "rejected", NoBody, "lookup")
                        ELSE DroppedTask]]
    /\ UNCHANGED <<TILE_WIDTH, TILE_HEIGHT, localStorage, discarded, image,
                   canvas, mosaic, log, result, arg, ret>>

\* fetch, or response.text(), rejects: the promise of the tile is rejected,
\* so is Promise.all of the row, and the rejection runs down the chain to
\* the promise generate returned; no callback is called. The other promises
\* of the row lose their observer; the lookups in flight among them go on.
LookupFails(r, c) ==
    /\ JobQueueEmpty
    /\ pc[r] = "row"
    /\ c \in DOMAIN tasks[r]
    /\ tasks[r][c].state = "fetching"
    /\ pc' = [pc EXCEPT ![r] = "rejected"]
    /\ orphans' = orphans (+) OtherLookups(tasks[r], c, 1)
    /\ tasks' = [tasks EXCEPT ![r] =
                    [k \in DOMAIN @ |->
                        IF k = c THEN Task(@[k].color, "rejected", NoBody, "lookup")
                        ELSE DroppedTask]]
    /\ UNCHANGED <<TILE_WIDTH, TILE_HEIGHT, localStorage, discarded, image,
                   canvas, mosaic, rowNum, log, result, arg, ret>>

\* The lookup of a rejected row comes back: its body is stored all the same.
OrphanReceive(color) ==
    /\ JobQueueEmpty
    /\ BagIn(color, orphans)
    /\ \E svg \in Bodies(color), raises \in BOOLEAN :
          localStorage' = StoreSvg(localStorage, color, svg, raises)
    /\ orphans' = orphans (-) SetToBag({color})
    /\ UNCHANGED <<TILE_WIDTH, TILE_HEIGHT, discarded, pc, image, canvas, mosaic,
                   rowNum, tasks, log, result, arg, ret>>

\* The lookup of a rejected row fails: nothing observes it.
OrphanFails(color) ==
    /\ JobQueueEmpty
    /\ BagIn(color, orphans)
    /\ orphans' = orphans (-) SetToBag({color})
    /\ UNCHANGED <<TILE_WIDTH, TILE_HEIGHT, localStorage, discarded, pc, image,
                   canvas, mosaic, rowNum, tasks, log, result, arg, ret>>

\* The then-callback of a chain that does not wait for its rows: the result
\* is there while the rows are still rendered.
FinishUnchained(r) ==
    /\ pc[r] \in {"chain", "row"}
    /\ result[r] = NoResult
    /\ result' = [result EXCEPT ![r] = [mosaicURL |-> toDataURL(canvas[r])]]
    /\ log' = [log EXCEPT ![r] = Append(@, Event("capture", rowNum[r], 0, 0, 0, ""))]
    /\ UNCHANGED <<TILE_WIDTH, TILE_HEIGHT, localStorage, orphans, discarded, pc,
                   image, canvas, mosaic, rowNum, tasks, arg, ret>>

\* The then-callback of generateMosaic: canvas.toDataURL() and the result.
Finish(r) ==
    /\ pc[r] = "chain"
    /\ rowNum[r] = Len(mosaic[r])
    /\ result' = [result EXCEPT ![r] = [mosaicURL |-> toDataURL(canvas[r])]]
    /\ log' = [log EXCEPT ![r] = Append(@, Event("capture", rowNum[r], 0, 0, 0, ""))]
    /\ pc' = [pc EXCEPT ![r] = "resolved"]
    /\ discarded' = {}
    /\ UNCHANGED <<TILE_WIDTH, TILE_HEIGHT, localStorage, orphans, image,
                   canvas, mosaic, rowNum, tasks, arg, ret>>

Cols == 1..MaxImg

Next ==
    \/ \E r \in Runs, img \in Images : SelectFile(r, img)
    \/ \E r \in Runs : Generate(r)
    \/ \E r \in Runs : StartRow(r)
    \/ \E r \in Runs, c \in Cols : Receive(r, c)
    \/ \E r \in Runs, c \in Cols : LookupFails(r, c)
    \/ \E r \in Runs, c \in Cols : ImgLoad(r, c)
    \/ \E r \in Runs, c \in Cols : ImgError(r, c)
    \/ \E r \in Runs : DrawRow(r)
    \/ \E color \in BagToSet(orphans) : OrphanReceive(color)
    \/ \E color \in BagToSet(orphans) : OrphanFails(color)
    \/ \E r \in Runs : Finish(r)

Spec == Init /\ [][Next]_vars

\* ------------------------------------------ generate with its tile arguments
\* Mosaicify.generate(img, canvas, tileWidth, tileHeight), with a canvas of
\* its own and any tile size.
GenerateWith(r) ==
    /\ JobQueueEmpty
    /\ pc[r] = "selected"
    /\ \E tileWidth, tileHeight \in 1..MaxTile, legacy \in BOOLEAN :
          generateMosaic(r, image[r], tileWidth, tileHeight, legacy)

NextArgs ==
    \/ \E r \in Runs, img \in Images : SelectFile(r, img)
    \/ \E r \in Runs : GenerateWith(r)
    \/ \E r \in Runs : StartRow(r)
    \/ \E r \in Runs, c \in Cols : Receive(r, c)
    \/ \E r \in Runs, c \in Cols : LookupFails(r, c)
    \/ \E r \in Runs, c \in Cols : ImgLoad(r, c)
    \/ \E r \in Runs, c \in Cols : ImgError(r, c)
    \/ \E r \in Runs : DrawRow(r)
    \/ \E color \in BagToSet(orphans) : OrphanReceive(color)
    \/ \E color \in BagToSet(orphans) : OrphanFails(color)
    \/ \E r \in Runs : Finish(r)

SpecArgs == Init /\ [][NextArgs]_vars

\* ------------------------------------- a service and a decoder that work
\* A lookup comes back with the svg of the colour; the store takes it or
\* raises.
ReceiveSvg(r, c) ==
    /\ JobQueueEmpty
    /\ c \in DOMAIN tasks[r]
    /\ \E raises \in BOOLEAN :
          ReceiveBody(r, c, SvgFor(tasks[r][c].color), raises)

\* The turns of the event loop that are due by themselves: a response that
\* arrives, an image that is decoded, a promise callback that is queued.
Turn ==
    \/ \E r \in Runs : StartRow(r)
    \/ \E r \in Runs, c \in Cols : ReceiveSvg(r, c)
    \/ \E r \in Runs, c \in Cols : ImgLoad(r, c)
    \/ \E r \in Runs : DrawRow(r)
    \/ \E r \in Runs : Finish(r)

NextLive ==
    \/ \E r \in Runs, img \in Images : SelectFile(r, img)
    \/ \E r \in Runs : Generate(r)
    \/ Turn

\* Every lookup returns a body and every image is decoded in the end; the
\* event loop runs the callbacks that are queued.
SpecLive == Init /\ [][NextLive]_vars /\ WF_vars(Turn)

\* ------------------------------------------------ calls that interleave
\* The two runs that interleave.
Pair == {1, 2}

\* Their images: one tile wide, of one colour or of two in turn.
PairImages == [width : {1}, height : 1..MaxPairRows, pat : Patterns]

\* Tiles of one pixel.
InitPair ==
    /\ Init
    /\ TILE_WIDTH = 1
    /\ TILE_HEIGHT = 1

\* fileSelectHandler up to img.onload, for a user who selects a file while
\* the mosaic of another is rendered: every run is one call of generate.
SelectNext(r, img) ==
    /\ JobQueueEmpty
    /\ r \in Pair
    /\ pc[r] = "idle"
    /\ \A q \in Pair : q < r => pc[q] # "idle"
    /\ pc' = [pc EXCEPT ![r] = "selected"]
    /\ image' = [image EXCEPT ![r] = img]
    /\ UNCHANGED <<TILE_WIDTH, TILE_HEIGHT, localStorage, orphans, discarded, canvas,
                   mosaic, rowNum, tasks, log, result, arg, ret>>

NextPair ==
    \/ \E r \in Runs, img \in PairImages : SelectNext(r, img)
    \/ \E r \in Runs : Generate(r)
    \/ Turn

SpecPair == InitPair /\ [][NextPair]_vars

\* ------------------------------------------------- clipImage on its own
InitClip ==
    /\ TILE_WIDTH \in 1..MaxClipTile
    /\ TILE_HEIGHT \in 1..MaxClipTile
    /\ localStorage = [ k \in {"theme"} |-> "dark" ]
    /\ InitRuns
    /\ arg \in [width : 0..MaxClipDim, height : 0..MaxClipDim, pat : {"halves"}]
    /\ ret = NoClip

\* A call of clipImage(img).
CallClipImage ==
    /\ ret = NoClip
    /\ ret' = clipImage(arg)
    /\ UNCHANGED <<TILE_WIDTH, TILE_HEIGHT, localStorage, orphans, discarded, pc,
                   image, canvas, mosaic, rowNum, tasks, log, result, arg>>

NextClip == CallClipImage

SpecClip == InitClip /\ [][NextClip]_vars

\* ------------------------------------------- the colour of a tile on its own
\* The pixels a tile is made of.
TilePixels == { ColourA, ColourB, <<255, 255, 254, 3>> }

\* The RGBA bytes of a sequence of pixels.
TileData(pixels) ==
    [ i \in 1..(4 * Len(pixels)) |-> pixels[((i - 1) \div 4) + 1][((i - 1) % 4) + 1] ]

\* The value of ret before the colour of a tile is computed.
NoColor == [average |-> << >>, hex |-> ""]

InitTile ==
    /\ TILE_WIDTH \in 1..MaxTile
    /\ TILE_HEIGHT \in 1..MaxTile
    /\ localStorage = [ k \in {"theme"} |-> "dark" ]
    /\ InitRuns
    /\ arg \in [1..(TILE_WIDTH * TILE_HEIGHT) -> TilePixels]
    /\ ret = NoColor

\* tileData.reduce(totalColor,[0,0,0]).map(average).map(toHex).join('')
CallTileColor ==
    /\ ret = NoColor
    /\ ret' = [average |-> TileAverage(TileData(arg)),
               hex |-> JoinHex(TileAverage(TileData(arg)))]
    /\ UNCHANGED <<TILE_WIDTH, TILE_HEIGHT, localStorage, orphans, discarded, pc,
                   image, canvas, mosaic, rowNum, tasks, log, result, arg>>

NextTile == CallTileColor

SpecTile == InitTile /\ [][NextTile]_vars

\* ------------------------------------------------------ toHex on its own
\* The values of a channel.
Bytes == 0..255

\* The value of ret before toHex is applied.
NoHex == [hex |-> "", rgb |-> << >>, cell |-> ""]

InitHex ==
    /\ TILE_WIDTH = 1
    /\ TILE_HEIGHT = 1
    /\ localStorage = [ k \in {"theme"} |-> "dark" ]
    /\ InitRuns
    /\ arg \in Bytes
    /\ ret = NoHex

\* toHex(dec), and a grid cell with dec as its red: .map(toHex).join('')
CallToHex ==
    /\ ret = NoHex
    /\ \E g, b \in {0, 16, 255} :
          ret' = [hex |-> toHex(arg), rgb |-> <<arg, g, b>>, cell |-> JoinHex(<<arg, g, b>>)]
    /\ UNCHANGED <<TILE_WIDTH, TILE_HEIGHT, localStorage, orphans, discarded, pc,
                   image, canvas, mosaic, rowNum, tasks, log, result, arg>>

NextHex == CallToHex

SpecHex == InitHex /\ [][NextHex]_vars

\* ------------------------------------------------------------ properties
\* The canvas calls among the events of a run.
IsCall(e) == e.ev \in {"clear", "draw"}

\* The number of canvas calls the run r has made for the row k.
CallsOfRow(r, k) ==
    Cardinality({ j \in DOMAIN log[r] : IsCall(log[r][j]) /\ log[r][j].row = k })

\* C1: rows are rendered one after the other, from row 0 on: whatever a run
\* does for a row (cache read, lookup, clear, draw) comes after the draw of
\* every tile of every row before it, and the rows of the history ascend.
C1_RowsInSequence ==
    \A r \in Runs : \A j \in DOMAIN log[r] :
        /\ \A k \in 1..(j - 1) : log[r][k].row <= log[r][j].row
        /\ \A i \in 0..(log[r][j].row - 1) : \A c \in 0..(Len(mosaic[r][i + 1]) - 1) :
              \E k \in 1..(j - 1) :
                  /\ log[r][k].ev = "draw"
                  /\ log[r][k].row = i
                  /\ log[r][k].col = c

\* A lookup of row 1 has been issued, for a grid two tiles wide.
C1_Witness ==
    \E r \in Runs : \E j \in DOMAIN log[r] :
        /\ log[r][j].ev = "fetch"
        /\ log[r][j].row = 1
        /\ Len(mosaic[r][1]) = 2

\* C2: a row is drawn as a whole or not at all: no tile of the row is cleared
\* or drawn while the row is pending or after it was rejected, every image
\* drawn was decoded, and the row drawn last had all its promises resolved.
C2_RowDrawnWhole ==
    \A r \in Runs :
        /\ \A k \in 0..(Len(mosaic[r]) - 1) :
              /\ CallsOfRow(r, k) \in {0, 2 * Len(mosaic[r][k + 1])}
              /\ (pc[r] \in {"row", "rejected"} /\ rowNum[r] <= k) => CallsOfRow(r, k) = 0
              /\ (pc[r] = "chain" /\ rowNum[r] = k + 1 /\ CallsOfRow(r, k) > 0) =>
                    \A c \in DOMAIN tasks[r] : tasks[r][c].state = "resolved"
        /\ \A j \in DOMAIN log[r] : log[r][j].ev = "draw" => Decodable(log[r][j].what)

\* Row 0 is drawn; in row 1 one promise is resolved, the other is pending,
\* and no tile of row 1 is touched.
C2_Witness ==
    \E r \in Runs :
        /\ pc[r] = "row"
        /\ rowNum[r] = 1
        /\ Len(tasks[r]) = 2
        /\ tasks[r][1].state = "resolved"
        /\ tasks[r][2].state = "fetching"
        /\ CallsOfRow(r, 0) = 4
        /\ CallsOfRow(r, 1) = 0

\* C3: a failed lookup rejects the row and the promise of generate: the run
\* is rejected as soon as a promise of its row is, it has no result, nothing
\* was done for a later row, and no tile is looked up twice.
C3_LookupFailureRejects ==
    \A r \in Runs :
        /\ \A c \in DOMAIN tasks[r] : tasks[r][c].state = "rejected" => pc[r] = "rejected"
        /\ pc[r] = "rejected" =>
              /\ \E c \in DOMAIN tasks[r] : tasks[r][c].state = "rejected"
              /\ result[r] = NoResult
              /\ \A j \in DOMAIN log[r] : log[r][j].row <= rowNum[r] /\ log[r][j].ev # "capture"
        /\ \A j, k \in DOMAIN log[r] :
              (j # k /\ log[r][j].ev = "fetch" /\ log[r][k].ev = "fetch") =>
                  <<log[r][j].row, log[r][j].col>> # <<log[r][k].row, log[r][k].col>>

\* A lookup of row 0 failed, in a grid of two rows.
C3_Witness ==
    \E r \in Runs :
        /\ pc[r] = "rejected"
        /\ rowNum[r] = 0
        /\ Len(mosaic[r]) = 2
        /\ \E c \in DOMAIN tasks[r] : tasks[r][c].state = "rejected"

\* C4: when generate resolves, every tile (x, y) was cleared, then drawn,
\* once, at (x * TILE_WIDTH, y * TILE_HEIGHT), with the glyph of its colour,
\* the tiles of a row by ascending column, the capture came last, and the
\* result is the canvas with every tile painted by its glyph.
C4_ResolvedMosaic ==
    \A r \in Runs : pc[r] = "resolved" =>
        LET calls == SelectSeq(log[r], IsCall)
            rows == Len(mosaic[r])
            cols == IF rows = 0 THEN 0 ELSE Len(mosaic[r][1])
        IN  /\ Len(calls) = 2 * rows * cols
            /\ \A y \in 0..(rows - 1) : \A x \in 0..(cols - 1) :
                  /\ calls[2 * (y * cols + x) + 1] =
                        Event("clear", y, x, x * TILE_WIDTH, y * TILE_HEIGHT, "")
                  /\ calls[2 * (y * cols + x) + 2] =
                        Event("draw", y, x, x * TILE_WIDTH, y * TILE_HEIGHT,
                              SvgFor(mosaic[r][y + 1][x + 1]))
            /\ \A j \in DOMAIN log[r] : log[r][j].ev = "capture" <=> j = Len(log[r])
            /\ result[r].mosaicURL = toDataURL(canvas[r])
            /\ rows > 0 => canvas[r].width = cols * TILE_WIDTH
            /\ canvas[r].height = rows * TILE_HEIGHT
            /\ \A p \in DOMAIN canvas[r].pixels :
                  canvas[r].pixels[p] =
                      SvgFor(mosaic[r][(p[2] \div TILE_HEIGHT) + 1][(p[1] \div TILE_WIDTH) + 1])

\* A run resolved for a grid of two rows and two columns of two colours,
\* one glyph of which came from the cache.
C4_Witness ==
    \E r \in Runs :
        /\ pc[r] = "resolved"
        /\ Len(mosaic[r]) = 2
        /\ Len(mosaic[r][1]) = 2
        /\ mosaic[r][1][1] # mosaic[r][1][2]
        /\ \E c \in DOMAIN tasks[r] : tasks[r][c].via = "cache"

\* The store holds no svg of the cache.
CacheEmpty(store) == \A k \in DOMAIN store : ~IsMosaicKey(k)

\* C5: a store that raises is not propagated: in the step in which a lookup
\* of a run comes back and its body is not stored, the cache is cleared in
\* full (every other key keeps its value), the promise of the tile goes on
\* to decode the body the lookup returned, and the row stays pending.
C5_StoreFailureContained ==
    [][ \A r \in Runs : \A c \in DOMAIN tasks[r] :
          ( /\ tasks[r][c].state = "fetching"
            /\ c \in DOMAIN tasks'[r]
            /\ tasks'[r][c].state = "decoding"
            /\ getItem(localStorage', storageKey(tasks[r][c].color)) # <<tasks'[r][c].svg>> )
          => /\ CacheEmpty(localStorage')
             /\ \A k \in DOMAIN localStorage :
                   ~IsMosaicKey(k) => getItem(localStorage', k) = <<localStorage[k]>>
             /\ DOMAIN localStorage' \subseteq DOMAIN localStorage
             /\ tasks'[r][c].svg \in Bodies(tasks[r][c].color)
             /\ tasks'[r][c].via = "fetched"
             /\ pc'[r] = "row"
             /\ \A k \in DOMAIN tasks[r] : k # c => tasks'[r][k] = tasks[r][k]
      ]_vars

\* A run resolved with a glyph it had fetched, and the cache is empty: a
\* store raised after the glyph was fetched.
C5_Witness ==
    \E r \in Runs :
        /\ pc[r] = "resolved"
        /\ CacheEmpty(localStorage)
        /\ \E c \in DOMAIN tasks[r] :
              tasks[r][c].via = "fetched" /\ tasks[r][c].state = "resolved"

\* C6: a colour whose svg is in the cache when its row starts is resolved
\* from the cache, and no lookup is requested for its tile.
C6_CacheHitSkipsLookup ==
    [][ \A r \in Runs : (pc[r] = "chain" /\ pc'[r] = "row") =>
          \A c \in DOMAIN tasks'[r] :
              LET stored == getItem(localStorage, storageKey(mosaic[r][rowNum[r] + 1][c]))
              IN  (stored # << >> /\ stored[1] # "") =>
                      /\ tasks'[r][c].state = "decoding"
                      /\ tasks'[r][c].svg = stored[1]
                      /\ \A j \in DOMAIN log'[r] :
                            ~ ( /\ log'[r][j].ev = "fetch"
                                /\ log'[r][j].row = rowNum[r]
                                /\ log'[r][j].col = c - 1 )
      ]_vars

\* Row 0 looked a colour up; row 1 has a tile of that colour, resolved from
\* the cache without a lookup.
C6_Witness ==
    \E r \in Runs : \E c \in DOMAIN tasks[r] : \E j \in DOMAIN log[r] :
        /\ pc[r] = "row"
        /\ rowNum[r] = 1
        /\ tasks[r][c].via = "cache"
        /\ log[r][j].ev = "fetch"
        /\ log[r][j].row = 0
        /\ log[r][j].what = LookupUrl(tasks[r][c].color)
        /\ \A k \in DOMAIN log[r] :
              ~(log[r][k].ev = "fetch" /\ log[r][k].row = 1 /\ log[r][k].col = c - 1)

\* C7: when generate has returned and no glyph is resolved yet, the cache
\* is empty and only keys of the cache were removed; every tile of row 0 is
\* looked up; the key of the other application keeps its value throughout.
C7_GenerateClearsCache ==
    /\ \A r \in Runs :
          /\ (pc[r] = "chain" /\ rowNum[r] = 0) => CacheEmpty(localStorage)
          /\ \A j \in DOMAIN log[r] :
                (log[r][j].ev = "read" /\ log[r][j].row = 0) =>
                    \E k \in DOMAIN log[r] :
                        /\ log[r][k].ev = "fetch"
                        /\ log[r][k].row = 0
                        /\ log[r][k].col = log[r][j].col
    /\ \A k \in discarded : IsMosaicKey(k)
    /\ getItem(localStorage, "theme") = <<"dark">>

\* generate has returned a promise for a grid with tiles, and its clear
\* removed svgs.
C7_Witness ==
    \E r \in Runs :
        /\ pc[r] = "chain"
        /\ rowNum[r] = 0
        /\ Len(mosaic[r]) > 0
        /\ Len(mosaic[r][1]) > 0
        /\ discarded # {}

\* C8: a promise whose image failed to decode rejects its row and its run.
C8_DecodeFailureRejects ==
    \A r \in Runs : \A c \in DOMAIN tasks[r] :
        tasks[r][c].state = "stuck" => pc[r] = "rejected"

\* C9: generate does not resolve for a clipped region without area.
C9_ZeroAreaFails ==
    \A r \in Runs :
        pc[r] = "resolved" => (canvas[r].width > 0 /\ canvas[r].height > 0)

\* C10: clipImage returns the largest multiples of the tile size within the
\* image, and as offsets the halves of the remainders, rounded down; for an
\* image of whole tiles it returns the image's size and offsets 0.
C10_ClipCentred ==
    ret # NoClip =>
        LET remX == arg.width - ret.width
            remY == arg.height - ret.height
        IN  /\ \E n \in 0..arg.width : ret.width = n * TILE_WIDTH
            /\ \E n \in 0..arg.height : ret.height = n * TILE_HEIGHT
            /\ remX >= 0 /\ remX < TILE_WIDTH
            /\ remY >= 0 /\ remY < TILE_HEIGHT
            /\ 2 * ret.offsetX <= remX /\ remX <= 2 * ret.offsetX + 1
            /\ 2 * ret.offsetY <= remY /\ remY <= 2 * ret.offsetY + 1
            /\ (arg.width % TILE_WIDTH = 0 /\ arg.height % TILE_HEIGHT = 0) =>
                  ret = [width |-> arg.width, height |-> arg.height,
                         offsetX |-> 0, offsetY |-> 0]

\* clipImage was called for an image that is not of whole tiles, and whose
\* remainders are odd and even.
C10_Witness ==
    /\ ret # NoClip
    /\ arg.width = 7 /\ TILE_WIDTH = 3
    /\ arg.height = 5 /\ TILE_HEIGHT = 3
    /\ ret = [width |-> 6, height |-> 3, offsetX |-> 0, offsetY |-> 1]

\* The sum of channel c over the pixels from the i-th on.
RECURSIVE ChannelSum(_, _, _)
ChannelSum(pixels, c, i) ==
    IF i > Len(pixels) THEN 0 ELSE pixels[i][c] + ChannelSum(pixels, c, i + 1)

\* C11: each channel of the colour of a tile is the sum of that channel over
\* the pixels of the tile, divided by their number and rounded down; the
\* alpha bytes are in no sum; the value lies in 0..255.
C11_ChannelAverage ==
    ret # NoColor =>
        /\ Len(arg) = TILE_WIDTH * TILE_HEIGHT
        /\ \A c \in 1..3 :
              /\ ret.average[c] * Len(arg) <= ChannelSum(arg, c, 1)
              /\ ChannelSum(arg, c, 1) < (ret.average[c] + 1) * Len(arg)
              /\ ret.average[c] \in 0..255

\* The colour of a tile of two pixels with different alpha bytes, whose
\* channel sums are odd, is computed.
C11_Witness ==
    /\ ret # NoColor
    /\ arg = << ColourA, <<255, 255, 254, 3>> >>
    /\ ret.average = <<133, 144, 155>>

\* C13: a tile whose pixels all have the same red, green and blue has that
\* colour, for every tile size; all of (12,34,56) it has the colour 0c2238.
C13_UniformTile ==
    (ret # NoColor /\ \A i \in DOMAIN arg : \A c \in 1..3 : arg[i][c] = arg[1][c]) =>
        /\ ret.average = <<arg[1][1], arg[1][2], arg[1][3]>>
        /\ (ret.average = <<12, 34, 56>>) => ret.hex = "0c2238"

\* The colour of a tile one pixel wide and two high, all of (12,34,56).
C13_Witness ==
    /\ ret # NoColor
    /\ TILE_WIDTH = 1
    /\ TILE_HEIGHT = 2
    /\ arg = << ColourA, ColourA >>
    /\ ret.hex = "0c2238"

\* The number a string of two lowercase hex digits stands for, -1 for any
\* other string.
HexPair(str) ==
    LET Digit(ch) == { d \in 0..15 : SubSeq("0123456789abcdef", d + 1, d + 1) = ch }
    IN  IF Len(str) # 2 \/ Digit(SubSeq(str, 1, 1)) = {} \/ Digit(SubSeq(str, 2, 2)) = {}
        THEN -1
        ELSE 16 * (CHOOSE d \in Digit(SubSeq(str, 1, 1)) : TRUE)
             + (CHOOSE d \in Digit(SubSeq(str, 2, 2)) : TRUE)

\* C16: toHex writes a byte as the two lowercase hex digits of its value,
\* with a leading zero below 16 (0 as 00, 16 as 10, 255 as ff), and a grid
\* cell is six characters: the pairs of its red, green and blue, in this order.
C16_TwoHexDigits ==
    ret # NoHex =>
        /\ HexPair(ret.hex) = arg
        /\ arg = 0 => ret.hex = "00"
        /\ arg = 16 => ret.hex = "10"
        /\ arg = 255 => ret.hex = "ff"
        /\ Len(ret.cell) = 6
        /\ \A c \in 1..3 : HexPair(SubSeq(ret.cell, 2 * c - 1, 2 * c)) = ret.rgb[c]

\* toHex was applied to a byte below 16, as the red of a grid cell.
C16_Witness ==
    /\ ret # NoHex
    /\ arg = 12
    /\ ret.hex = "0c"
    /\ ret.cell = "0c10ff"

\* C14: with lookups that return and images that decode, a run in flight
\* is resolved in the end; a resolved run has a result and has drawn every
\* tile of every row, and a run without rows has issued no lookup.
C14_Terminates ==
    /\ \A r \in Runs : InFlight(r) ~> (pc[r] = "resolved")
    /\ [] ( \A r \in Runs : pc[r] = "resolved" =>
              /\ result[r] = [mosaicURL |-> toDataURL(canvas[r])]
              /\ rowNum[r] = Len(mosaic[r])
              /\ \A k \in 0..(Len(mosaic[r]) - 1) :
                    CallsOfRow(r, k) = 2 * Len(mosaic[r][k + 1])
              /\ Len(mosaic[r]) = 0 =>
                    \A j \in DOMAIN log[r] : log[r][j].ev # "fetch" )

\* A run of two rows is resolved, every glyph of its last row looked up.
C14_Witness ==
    \E r \in Runs :
        /\ pc[r] = "resolved"
        /\ Len(mosaic[r]) = 2
        /\ result[r] # NoResult
        /\ \A c \in DOMAIN tasks[r] : tasks[r][c].via = "fetched"

\* C15: the grid of a run covers its canvas with whole tiles of the size
\* the tiles are read and drawn with: rows * TILE_HEIGHT is the height of
\* the canvas and columns * TILE_WIDTH its width, whatever tile size generate
\* was called with.
C15_GridCoversCanvas ==
    \A r \in Runs : pc[r] \in {"chain", "row", "resolved", "rejected"} =>
        /\ Len(mosaic[r]) * TILE_HEIGHT = canvas[r].height
        /\ \A y \in DOMAIN mosaic[r] : Len(mosaic[r][y]) * TILE_WIDTH = canvas[r].width

\* C17: the step that starts a row reads the cache once for every tile and
\* requests one lookup for every tile whose key the cache does not hold,
\* tiles of one colour each on their own; the cache is the same after the
\* step, so no lookup of the row has come back before the last read.
C17_NoDeduplication ==
    [][ \A r \in Runs : (pc[r] = "chain" /\ pc'[r] = "row") =>
          LET row == mosaic[r][rowNum[r] + 1]
              new == SubSeq(log'[r], Len(log[r]) + 1, Len(log'[r]))
              absent == { c \in DOMAIN row :
                            getItem(localStorage, storageKey(row[c])) = << >> }
          IN  /\ Cardinality({ j \in DOMAIN new : new[j].ev = "fetch" }) = Cardinality(absent)
              /\ Cardinality({ j \in DOMAIN new : new[j].ev = "read" }) = Len(row)
              /\ \A c \in DOMAIN row :
                    c \in absent <=>
                        \E j \in DOMAIN new :
                            /\ new[j].ev = "fetch"
                            /\ new[j].col = c - 1
                            /\ new[j].what = LookupUrl(row[c])
              /\ \A c \in DOMAIN row : c \in absent <=> tasks'[r][c].state = "fetching"
              /\ localStorage' = localStorage
      ]_vars

\* A row of two tiles of one colour is pending, with a lookup in flight
\* for each of them.
C17_Witness ==
    \E r \in Runs :
        /\ pc[r] = "row"
        /\ Len(tasks[r]) = 2
        /\ tasks[r][1].color = tasks[r][2].color
        /\ tasks[r][1].state = "fetching"
        /\ tasks[r][2].state = "fetching"
        /\ Cardinality({ j \in DOMAIN log[r] :
                           /\ log[r][j].ev = "fetch"
                           /\ log[r][j].row = rowNum[r]
                           /\ log[r][j].what = LookupUrl(tasks[r][1].color) }) = 2

\* No call of generate is in flight or about to be made.
Quiet == \A r \in Runs : ~InFlight(r) /\ pc[r] # "selected"

\* C18, as stated: while every call of generate has settled, no step
\* changes the cache.
C18_SettledRunLeavesCache ==
    [][ Quiet => localStorage' = localStorage ]_vars

\* C18, amended: a run that has a result or is rejected keeps its canvas and
\* its result until its record is used for the next call, and a resolved run
\* has no lookup in flight; while every call
\* has settled, the cache changes only when a lookup of a rejected row comes
\* back: its body is stored under its key, or the cache is cleared.
C18_SettledRunKeepsCanvas ==
    [][ /\ \A r \in Runs :
              /\ ((result[r] # NoResult \/ pc[r] = "rejected") /\ pc'[r] # "selected") =>
                    /\ canvas'[r] = canvas[r]
                    /\ result'[r] = result[r]
              /\ pc[r] = "resolved" =>
                    \A c \in DOMAIN tasks[r] : tasks[r][c].state = "resolved"
        /\ (Quiet /\ localStorage' # localStorage) =>
              \E color \in BagToSet(orphans) :
                  /\ orphans' = orphans (-) SetToBag({color})
                  /\ \/ localStorage' = clearCachedSvgs(localStorage)
                     \/ \E body \in Bodies(color) :
                           localStorage' = setItem(localStorage, storageKey(color), body)
      ]_vars

\* A run without tiles is resolved and the cache, which its call of generate
\* had cleared, holds an svg: the lookup of a row rejected before has stored it.
C18_Witness ==
    \E r \in Runs :
        /\ pc[r] = "resolved"
        /\ Len(mosaic[r]) = 0
        /\ ~CacheEmpty(localStorage)

\* generate has computed the grid of the run.
HasGrid(r) == pc[r] \in {"chain", "row", "resolved", "rejected"}

GridColours ==
    UNION { UNION { { mosaic[r][y][x] : x \in DOMAIN mosaic[r][y] } : y \in DOMAIN mosaic[r] } :
              r \in Runs }

\* C19: with two runs interleaved, once generate was called every svg of
\* the cache is stored under the key of a colour and is a body of the lookup
\* of that colour; no run is rejected and no promise stays pending for ever;
\* a resolved run has drawn every tile once, with the glyph of its colour,
\* and every pixel of its canvas shows the glyph of its tile.
C19_InterleavedRuns ==
    /\ (\E r \in Runs : HasGrid(r)) =>
          \A k \in DOMAIN localStorage : IsMosaicKey(k) =>
              \E color \in GridColours :
                  /\ k = "mosaic-" \o color \o "-" \o ToString(TILE_WIDTH)
                                           \o "-" \o ToString(TILE_HEIGHT)
                  /\ localStorage[k] = SvgFor(color)
    /\ \A r \in Runs :
          /\ pc[r] # "rejected"
          /\ \A c \in DOMAIN tasks[r] : tasks[r][c].state \in {"fetching", "decoding", "resolved"}
          /\ pc[r] = "resolved" =>
                /\ \A y \in DOMAIN mosaic[r] : \A x \in DOMAIN mosaic[r][y] :
                      Cardinality({ j \in DOMAIN log[r] :
                                      /\ log[r][j].ev = "draw"
                                      /\ log[r][j].row = y - 1
                                      /\ log[r][j].col = x - 1 }) = 1
                /\ \A j \in DOMAIN log[r] : log[r][j].ev = "draw" =>
                      log[r][j].what = SvgFor(mosaic[r][log[r][j].row + 1][log[r][j].col + 1])
                /\ \A p \in DOMAIN canvas[r].pixels :
                      canvas[r].pixels[p] = SvgFor(mosaic[r][p[2] + 1][p[1] + 1])

\* Run 1 waits for its second row; generate was called for run 2 meanwhile,
\* and its clear removed the svg run 1 had stored for its first row.
C19_Witness ==
    /\ pc[1] = "row"
    /\ rowNum[1] = 1
    /\ pc[2] = "chain"
    /\ rowNum[2] = 0
    /\ Len(mosaic[2]) > 0
    /\ discarded # {}

====
